---- MODULE Spec2Model ----
(***************************************************************************)
(* Model of mastermind.py: scoring one round of the Mastermind game.       *)
(*                                                                         *)
(* A Python object passed as a sequence is a record                        *)
(*     [type |-> "list" | "tuple", items |-> <<entry, ...>>]               *)
(* and an entry is a record [type |-> "int" | "bool" | "float", val |-> n].*)
(* val is the numeric value Python uses for ==, <=, - and hashing: True    *)
(* has val 1 and the float 2.0 has val 2, so 1 == True and 2 == 2.0 as in  *)
(* Python, while isinstance(entry, int) looks at the type only.            *)
(***************************************************************************)
EXTENDS Integers, Sequences, FiniteSets

VARIABLES secret_code, guess, pc, verdict, result, exc

vars == <<secret_code, guess, pc, verdict, result, exc>>

-----------------------------------------------------------------------------
(* Bounds of the explored inputs *)

\* longest sequence of in-range digits drawn as an input
MaxLen == 3
\* in-range digits 1..MaxVal are drawn for those sequences
MaxVal == 3
\* longest sequence drawn over the mixed pool (out-of-range, bool, float)
MaxWildLen == 2

-----------------------------------------------------------------------------
(* Program constants *)

\* indices into a (secret, guess) pair; Python's 0 and 1 are TLA+'s 1 and 2
SECRET_IDX == 1
GUESS_IDX == 2

\* the accepted integer range of is_valid_range
MinDigit == 1
MaxDigit == 9

-----------------------------------------------------------------------------
(* Python values *)

Int_(n) == [type |-> "int", val |-> n]
PyTrue == [type |-> "bool", val |-> 1]
Float_(n) == [type |-> "float", val |-> n]

List_(s) == [type |-> "list", items |-> s]
Tuple_(s) == [type |-> "tuple", items |-> s]

\* isinstance(x, int): bool is a subclass of int
IsInstanceInt(entry) == entry.type \in {"int", "bool"}

\* isinstance(x, list)
IsInstanceList(sequence) == sequence.type = "list"

\* len(x)
len(sequence) == Len(sequence.items)

\* set(x): the distinct values of an iterable, entries equal by value
set(items) == {items[i].val : i \in DOMAIN items}

Min(a, b) == IF a <= b THEN a ELSE b

\* zip(a, b): pairs by position, stopping at the shorter one
zip(a, b) == [i \in 1..Min(Len(a.items), Len(b.items)) |-> <<a.items[i], b.items[i]>>]

RECURSIVE SumSeq(_)
\* sum([...]) of a list of integers
SumSeq(s) == IF s = <<>> THEN 0 ELSE Head(s) + SumSeq(Tail(s))

RECURSIVE SumFun(_)
\* sum([f[x] for x in DOMAIN f]) of a comprehension over a set
SumFun(f) ==
    IF DOMAIN f = {} THEN 0
    ELSE LET x == CHOOSE y \in DOMAIN f : TRUE
         IN f[x] + SumFun([y \in DOMAIN f \ {x} |-> f[y]])

-----------------------------------------------------------------------------
(* The functions of mastermind.py *)

\* is_list_of_int without the isinstance(sequence, list) test
is_list_of_int_any_sequence(sequence) ==
    \A i \in DOMAIN sequence.items : IsInstanceInt(sequence.items[i])

\* is_list_of_int, lines 125-134
is_list_of_int(sequence) ==
    IsInstanceList(sequence)
    /\ \A i \in DOMAIN sequence.items : IsInstanceInt(sequence.items[i])

\* is_valid_range with the lower bound off by one: 0 <= entry <= 9
is_valid_range_from_zero(sequence) ==
    \A entry \in set(sequence.items) : MinDigit - 1 <= entry /\ entry <= MaxDigit

\* is_valid_range, lines 112-122: the range check runs over set(sequence)
is_valid_range(sequence) ==
    \A entry \in set(sequence.items) : MinDigit <= entry /\ entry <= MaxDigit

\* is_invalid, lines 98-109; `or` short-circuits, so is_valid_range only
\* sees lists of ints
is_invalid(sequence) ==
    IF ~is_list_of_int(sequence) THEN TRUE ELSE ~is_valid_range(sequence)

\* convert_to_binary testing value >= 0 instead of value == 0
convert_to_binary_ge(value) == IF value >= 0 THEN 1 ELSE 0

\* convert_to_binary, lines 62-69
convert_to_binary(value) == IF value = 0 THEN 1 ELSE 0

\* get_strong_count summing the truth of the differences, not their conversion
get_strong_count_nonzero(pairs) ==
    SumSeq([i \in DOMAIN pairs |->
              IF pairs[i][SECRET_IDX].val - pairs[i][GUESS_IDX].val # 0 THEN 1 ELSE 0])

\* get_strong_count, lines 51-59
get_strong_count(pairs) ==
    SumSeq([i \in DOMAIN pairs |->
              convert_to_binary(pairs[i][SECRET_IDX].val - pairs[i][GUESS_IDX].val)])

\* get_weak_count keeping the strong pairs
filtered_pairs_unfiltered(pairs) == pairs

\* the list comprehension of get_weak_count, lines 80-82
filtered_pairs(pairs) ==
    SelectSeq(pairs, LAMBDA pair : pair[SECRET_IDX].val # pair[GUESS_IDX].val)

\* secret_values filled from the guess side of each pair
secret_values_from_guess(pairs) ==
    [i \in DOMAIN filtered_pairs(pairs) |-> filtered_pairs(pairs)[i][GUESS_IDX]]

\* lines 84-88
secret_values(pairs) ==
    [i \in DOMAIN filtered_pairs(pairs) |-> filtered_pairs(pairs)[i][SECRET_IDX]]

guess_values(pairs) ==
    [i \in DOMAIN filtered_pairs(pairs) |-> filtered_pairs(pairs)[i][GUESS_IDX]]

\* the comprehension without its `if digit in set(secret_values)` filter
common_digits_all_guess(pairs) == set(guess_values(pairs))

\* the digits the comprehension of lines 92-93 iterates over
common_digits(pairs) ==
    {digit \in set(guess_values(pairs)) : digit \in set(secret_values(pairs))}

\* digit/digit, line 92, for a nonzero digit
TrueDivSelf(digit) == digit \div digit

\* get_weak_count iterating over guess_values instead of set(guess_values)
get_weak_count_per_occurrence(pairs) ==
    IF 0 \in common_digits(pairs)
    THEN [exc |-> "ZeroDivisionError", val |-> 0]
    ELSE [exc |-> "none",
          val |-> SumSeq([i \in DOMAIN guess_values(pairs) |->
                            IF guess_values(pairs)[i].val \in set(secret_values(pairs))
                            THEN TrueDivSelf(guess_values(pairs)[i].val) ELSE 0])]

\* get_weak_count, lines 72-95: the outcome is the returned int, or
\* ZeroDivisionError when digit/digit is evaluated with digit == 0
get_weak_count(pairs) ==
    IF 0 \in common_digits(pairs)
    THEN [exc |-> "ZeroDivisionError", val |-> 0]
    ELSE [exc |-> "none", val |-> SumFun([digit \in common_digits(pairs) |-> TrueDivSelf(digit)])]

\* the guard of solve without the length comparison
solve_guard_no_len(secret, gss) == is_invalid(secret) \/ is_invalid(gss)

\* the guard of solve, lines 43-44
solve_guard(secret, gss) ==
    is_invalid(secret) \/ is_invalid(gss) \/ len(secret) # len(gss)

\* solve, lines 33-48
solve(secret, gss) ==
    IF solve_guard(secret, gss)
    THEN [exc |-> "none", val |-> <<0, 0>>]
    ELSE LET pairs == zip(secret, gss)
             weak == get_weak_count(pairs)
         IN IF weak.exc # "none"
            THEN [exc |-> weak.exc, val |-> <<>>]
            ELSE [exc |-> "none", val |-> <<get_strong_count(pairs), weak.val>>]

-----------------------------------------------------------------------------
(* Inputs *)

RECURSIVE SeqsUpTo(_, _)
\* all sequences over S of length at most n
SeqsUpTo(S, n) ==
    IF n = 0 THEN {<<>>}
    ELSE LET shorter == SeqsUpTo(S, n - 1)
         IN shorter \cup {Append(s, x) : s \in {t \in shorter : Len(t) = n - 1}, x \in S}

\* in-range digits
Digits == {Int_(n) : n \in MinDigit..MaxVal}

\* the boundary of the accepted range, a bool and a float
WildEntries ==
    {Int_(MinDigit - 1), Int_(MinDigit), Int_(MaxDigit), Int_(MaxDigit + 1),
     PyTrue, Float_(2)}

\* the example of the module docstring, lines 5-11
DocSecret == List_(<<Int_(1), Int_(7), Int_(9), Int_(3), Int_(7)>>)
DocGuess == List_(<<Int_(2), Int_(7), Int_(3), Int_(3), Int_(1)>>)

\* a round whose digits repeat on both sides, all positions differing
RepeatSecret == List_(<<Int_(2), Int_(2), Int_(3), Int_(3)>>)
RepeatGuess == List_(<<Int_(3), Int_(3), Int_(2), Int_(2)>>)

DigitLists == {List_(s) : s \in SeqsUpTo(Digits, MaxLen)}
WildLists == {List_(s) : s \in SeqsUpTo(WildEntries, MaxWildLen)}
NonLists == {Tuple_(<<Int_(1), Int_(2)>>), Tuple_(<<>>)}

InputPairs ==
    (DigitLists \X DigitLists)
    \cup ((WildLists \cup NonLists) \X (WildLists \cup NonLists))
    \cup {<<DocSecret, DocGuess>>, <<RepeatSecret, RepeatGuess>>}

-----------------------------------------------------------------------------
(* The state machine: a caller holding two sequences may pre-validate the  *)
(* secret with is_invalid and then scores the round with solve.            *)

Init ==
    /\ \E p \in InputPairs : secret_code = p[1] /\ guess = p[2]
    /\ pc = "start"
    /\ verdict = "unknown"
    /\ result = <<>>
    /\ exc = "none"

\* a call of is_invalid(secret_code)
IsInvalid ==
    /\ pc = "start"
    /\ verdict' = IF is_invalid(secret_code) THEN "invalid" ELSE "valid"
    /\ pc' = "validated"
    /\ UNCHANGED <<secret_code, guess, result, exc>>

\* a call of solve(secret_code, guess)
Solve ==
    /\ pc \in {"start", "validated"}
    /\ result' = solve(secret_code, guess).val
    /\ exc' = solve(secret_code, guess).exc
    /\ pc' = "done"
    /\ UNCHANGED <<secret_code, guess, verdict>>

Next == IsInvalid \/ Solve

Spec == Init /\ [][Next]_vars

-----------------------------------------------------------------------------
(* What the properties are stated over, written from positions and values  *)
(* rather than from the functions above.                                   *)

Done == pc = "done"

\* a list whose entries are all integers of [1, 9]; as for isinstance, a
\* bool is an integer (True is 1)
IsDigitList(x) ==
    /\ x.type = "list"
    /\ \A i \in DOMAIN x.items :
          /\ x.items[i].type \in {"int", "bool"}
          /\ x.items[i].val >= 1
          /\ x.items[i].val <= 9

\* both sequences valid and of equal length
ValidRound ==
    /\ IsDigitList(secret_code)
    /\ IsDigitList(guess)
    /\ Len(secret_code.items) = Len(guess.items)

N == Len(secret_code.items)
SVal(i) == secret_code.items[i].val
GVal(i) == guess.items[i].val

StrongPositions == {i \in 1..N : SVal(i) = GVal(i)}
DiffPositions == {i \in 1..N : SVal(i) # GVal(i)}
SecretDiff == {SVal(i) : i \in DiffPositions}
GuessDiff == {GVal(i) : i \in DiffPositions}

\* classic bag matching of one digit value over the differing positions
BagOf(v) ==
    Min(Cardinality({i \in DiffPositions : SVal(i) = v}),
        Cardinality({i \in DiffPositions : GVal(i) = v}))

BagWeak == SumFun([v \in 1..9 |-> BagOf(v)])

-----------------------------------------------------------------------------
\* C1: whenever the secret is invalid, or the guess is invalid, or their
\* lengths differ, solve returns exactly (0, 0).
C1_InvalidYieldsZero ==
    (Done /\ ~ValidRound) => (exc = "none" /\ result = <<0, 0>>)

\* valid sequences of lengths 2 and 1 that agree at the first position
C1_Witness ==
    /\ Done
    /\ IsDigitList(secret_code) /\ IsDigitList(guess)
    /\ N = 2 /\ Len(guess.items) = 1
    /\ SVal(1) = GVal(1)
    /\ result = <<0, 0>>

\* C2: for valid sequences of equal length n the returned pair satisfies
\* 0 <= strong <= n, 0 <= weak and strong + weak <= n.
C2_ScoreBounded ==
    (Done /\ ValidRound) =>
        /\ exc = "none"
        /\ 0 <= result[1] /\ result[1] <= N
        /\ 0 <= result[2]
        /\ result[1] + result[2] <= N

\* a round where the bound is tight with both counts positive
C2_Witness ==
    /\ Done /\ ValidRound
    /\ N = 3
    /\ result[1] = 1 /\ result[2] = 2

\* C3: for valid sequences of equal length n the strong count is n exactly
\* when secret and guess are equal at every position.
C3_AllStrongIffEqual ==
    (Done /\ ValidRound) =>
        /\ exc = "none"
        /\ (result[1] = N) <=> (\A i \in 1..N : SVal(i) = GVal(i))

\* a round of three positions that all match
C3_Witness ==
    /\ Done /\ ValidRound
    /\ N = 3
    /\ \A i \in 1..N : SVal(i) = GVal(i)
    /\ result[1] = 3

\* C4: for valid sequences of equal length the weak count is the size of
\* the intersection of the distinct guess digits and the distinct secret
\* digits at the positions where secret and guess differ.
C4_WeakIsSetIntersection ==
    (Done /\ ValidRound) =>
        /\ exc = "none"
        /\ result[2] = Cardinality(GuessDiff \cap SecretDiff)

\* a matching digit repeats in the guess at differing positions and is
\* still counted once
C4_Witness ==
    /\ Done /\ ValidRound
    /\ \E i, j \in DiffPositions :
          i # j /\ GVal(i) = GVal(j) /\ GVal(i) \in SecretDiff
    /\ result[2] = 2

\* C5: for valid sequences of equal length the strong count is the number
\* of positions where secret and guess are equal.
C5_StrongCountsEqualPositions ==
    (Done /\ ValidRound) =>
        /\ exc = "none"
        /\ result[1] = Cardinality(StrongPositions)

\* a round with some but not all positions matching
C5_Witness ==
    /\ Done /\ ValidRound
    /\ N = 3
    /\ Cardinality(StrongPositions) = 1
    /\ result[1] = 1

\* C6: solve never raises: on every input it returns a pair of
\* non-negative integers, and digit/digit is never evaluated with digit 0.
C6_NeverRaises ==
    Done =>
        /\ exc = "none"
        /\ Len(result) = 2
        /\ result[1] \in Nat
        /\ result[2] \in Nat

\* lists of equal length that hold a 0 on both sides at differing positions
C6_Witness ==
    /\ Done
    /\ secret_code.type = "list" /\ guess.type = "list"
    /\ N = Len(guess.items)
    /\ \E i, j \in DiffPositions : SVal(i) = 0 /\ GVal(j) = 0
    /\ exc = "none"

\* C7: is_invalid returns true exactly when the sequence is not a list of
\* integers only or some element of it lies outside [1, 9], every element
\* being looked at.
C7_IsInvalidIffNotDigitList ==
    (verdict # "unknown") => ((verdict = "invalid") <=> ~IsDigitList(secret_code))

\* a list of integers whose only flaw is an out-of-range value held twice
C7_Witness ==
    /\ verdict = "invalid"
    /\ secret_code.type = "list"
    /\ N = 2
    /\ \A i \in 1..N : secret_code.items[i].type = "int"
    /\ SVal(1) = 10 /\ SVal(2) = 10

\* C8: solve([1,7,9,3,7], [2,7,3,3,1]) returns (2, 1): the strong matches
\* are the guess's second-position 7 and fourth-position 3, and the weak
\* match is the guess's final 1.
C8_DocExample ==
    (Done /\ secret_code = DocSecret /\ guess = DocGuess) =>
        /\ exc = "none"
        /\ result = <<2, 1>>
        /\ StrongPositions = {2, 4}
        /\ GVal(2) = 7 /\ GVal(4) = 3
        /\ GuessDiff \cap SecretDiff = {GVal(5)}
        /\ GVal(5) = 1

\* the docstring's round has been scored
C8_Witness ==
    /\ Done
    /\ secret_code = DocSecret /\ guess = DocGuess
    /\ result = <<2, 1>>

\* C9: solve is symmetric: for all inputs, valid or not and of any
\* lengths, solve(guess, secret) gives what solve(secret, guess) gave.
C9_Symmetric ==
    Done => (solve(guess, secret_code) = [exc |-> exc, val |-> result])

\* a valid round with a weak match whose two sides hold different digits
C9_Witness ==
    /\ Done /\ ValidRound
    /\ set(secret_code.items) # set(guess.items)
    /\ result[2] >= 1

\* C10: for valid sequences of equal length the weak count never exceeds
\* the classic bag-matching weak count over the non-strong positions, and
\* it is 0 when exactly one position differs.
C10_WeakAtMostBag ==
    (Done /\ ValidRound) =>
        /\ exc = "none"
        /\ result[2] <= BagWeak
        /\ (result[1] = N - 1) => (result[2] = 0)

\* a round where the set rule counts strictly fewer than bag matching
C10_Witness ==
    /\ Done /\ ValidRound
    /\ result[2] >= 1
    /\ result[2] < BagWeak

====
